---------------------------- MODULE Spec2Model ----------------------------
(***************************************************************************)
(* Model of src/src/requestCreator.py: a Streamlit script that is re-run   *)
(* from top to bottom on every user interaction.  The session state        *)
(* (st.session_state) survives between runs; widget values are the inputs  *)
(* of a run.  A run is atomic up to the remote generation call, which is   *)
(* the only point where the script blocks on the environment after the     *)
(* widgets have been read.  Interactions are handled one at a time: a new  *)
(* run starts only when the previous one has ended, and a run is started   *)
(* by one widget (the key box, the uploader, the selectbox, a button or    *)
(* the chat input).                                                        *)
(***************************************************************************)
EXTENDS Integers, Sequences, FiniteSets, TLC

VARIABLES
    \* ---- st.session_state
    api_key,            \* st.session_state.api_key
    models_list,        \* st.session_state.models_list
    selected_model,     \* st.session_state.selected_model ("None" = None)
    current_file_name,  \* st.session_state.current_file_name ("None" = None)
    generate_history,   \* st.session_state.generate_history
    analysis_history,   \* st.session_state.analysis_history
    erp_history,        \* st.session_state.erp_history
    \* ---- widget values that persist between runs
    api_key_input,      \* the script's local api_key (st.text_input)
    uploaded_file,      \* st.file_uploader value
    \* ---- the run in progress
    pc,                 \* "Idle" | "Calling" | "Done"
    task,               \* task whose handler is running ("None" if none)
    accepted,           \* the handler passed validation and reached the call
    user_prompt,        \* st.text_input user_prompt
    analysis_prompt,    \* st.chat_input value
    erp_prompt,         \* st.text_input erp_prompt
    erp_language,       \* st.text_input erp_language
    string_data,        \* decoded text of the uploaded file
    stopped,            \* where the script ended ("None" while it has not)
    result,             \* (response_text, error) of get_gemini_response
    editor,             \* what the editor tab rendered
    editor_url,         \* editor_url given to the iframe of the editor tab
    full_prompt,        \* prompt_text given to get_gemini_response
    fetched,            \* "none" | "failed" | "listed": the model fetch of this run
    calls,              \* generate_content invocations in this run
    log,                \* logging calls of this run, in order
    shown,              \* st.warning / st.error / st.exception of this run
    \* ---- history variables of the verification
    remote,             \* what the remote did on the last call
    hist0,              \* the three histories when the run started
    journal             \* per task: what was appended since the last clear

session == <<api_key, models_list, selected_model, current_file_name>>
histories == <<generate_history, analysis_history, erp_history>>
widgets == <<api_key_input, uploaded_file>>
locals == <<pc, task, accepted, user_prompt, analysis_prompt, erp_prompt,
            erp_language, string_data, stopped, result, editor, editor_url,
            full_prompt, fetched, calls, log, shown>>
ghosts == <<remote, hist0, journal>>
vars == <<session, histories, widgets, locals, ghosts>>

-----------------------------------------------------------------------------
(* Bounds of the model *)

\* most entries the three histories hold together
MaxEntries == 3
MaxTurns == 4
\* longest tail of explicit characters of a specification text
MaxTail == 1
\* how far below the editor threshold the padded texts start
PadSlack == 4

-----------------------------------------------------------------------------
(* Values *)

None == "None"

Tasks == {"Generate", "Analyze", "ERPIntegration"}

\* A text is pad copies of "a" followed by the code points of tail.
EmptyText == [pad |-> 0, tail |-> <<>>]

\* code points: a, space, e-acute, euro sign, U+1F600
Chars == {97, 32, 233, 8364, 128512}

\* bytes str.encode('utf-8') produces for one code point
UTF8Width(c) ==
    IF c < 128 THEN 1 ELSE IF c < 2048 THEN 2 ELSE IF c < 65536 THEN 3 ELSE 4

RECURSIVE EncodedLength(_)
EncodedLength(s) ==
    IF s = <<>> THEN 0 ELSE UTF8Width(Head(s)) + EncodedLength(Tail(s))

\* len(string_data.encode('utf-8'))
ByteLength(text) == text.pad + EncodedLength(text.tail)

\* len(string_data)
CharLength(text) == text.pad + Len(text.tail)

\* the editor tab embeds texts below this many bytes
EditorLimit == 4096

\* the branch the editor tab takes
EditorRoute_ByChars(text) ==
    IF CharLength(text) < EditorLimit THEN "EmbedDirect" ELSE "RequireExternalUrl"

EditorRoute(text) ==
    IF ByteLength(text) < EditorLimit THEN "EmbedDirect" ELSE "RequireExternalUrl"

\* ---- uploaded files
\* utf8_ok: getvalue().decode("utf-8") succeeds; yaml_ok: yaml.safe_load succeeds
NoFile == [name |-> None, text |-> EmptyText, utf8_ok |-> FALSE, yaml_ok |-> FALSE]

SpecA == [pad |-> 0, tail |-> <<97, 32, 97>>]
SpecB == [pad |-> EditorLimit - 2, tail |-> <<233>>]

Files ==
    { [name |-> "a.yaml", text |-> SpecA, utf8_ok |-> TRUE, yaml_ok |-> TRUE],
      [name |-> "a.yaml", text |-> SpecB, utf8_ok |-> TRUE, yaml_ok |-> TRUE],
      [name |-> "b.yaml", text |-> SpecA, utf8_ok |-> TRUE, yaml_ok |-> TRUE],
      [name |-> "b.yaml", text |-> EmptyText, utf8_ok |-> FALSE, yaml_ok |-> FALSE],
      [name |-> "a.yaml", text |-> SpecA, utf8_ok |-> TRUE, yaml_ok |-> FALSE] }

\* texts around the editor threshold
Tails == UNION { [1..n -> Chars] : n \in 0..MaxTail }
Pads == {0} \cup ((EditorLimit - PadSlack)..(EditorLimit + 1))
Texts == { [pad |-> p, tail |-> t] : p \in Pads, t \in Tails }
TextFiles ==
    { [name |-> "a.yaml", text |-> t, utf8_ok |-> TRUE, yaml_ok |-> TRUE] : t \in Texts }

\* texts with characters quote keeps ("a", "/") and characters it must
\* escape (space, "%", "+", and characters of 2, 3 and 4 bytes)
UrlChars == Chars \cup {47, 37, 43}
UrlTails == UNION { [1..n -> UrlChars] : n \in 0..MaxTail }
UrlTexts == { [pad |-> p, tail |-> t] : p \in {0, EditorLimit - 2}, t \in UrlTails }
UrlFiles ==
    { [name |-> "a.yaml", text |-> t, utf8_ok |-> TRUE, yaml_ok |-> TRUE] : t \in UrlTexts }

\* ---- credentials and models
Keys == {"k1"}
preferred_models == <<"models/gemini-2.5-flash", "models/gemini-pro">>
ModelLists ==
    { <<>>,
      <<"models/text-x">>,
      <<"models/gemini-pro", "models/gemini-2.5-flash">> }

\* two credentials, and listings in which the preferred models are absent,
\* present out of order, and present after another model
AuthKeys == {"k1", "k2"}
AuthModelLists ==
    ModelLists \cup { <<"models/text-x", "models/gemini-pro">>,
                      <<"models/text-x", "models/gemini-2.5-flash">> }

\* outcome of genai.configure + genai.list_models
FetchOutcomes ==
    { [ok |-> FALSE, models |-> <<>>] } \cup { [ok |-> TRUE, models |-> l] : l \in ModelLists }
NoFetch == [ok |-> FALSE, models |-> <<>>]
AuthFetchOutcomes == { NoFetch } \cup { [ok |-> TRUE, models |-> l] : l \in AuthModelLists }

Range(s) == { s[i] : i \in DOMAIN s }

\* list.index(x); 0 stands for ValueError
IndexOf(s, x) ==
    IF x \in Range(s) THEN CHOOSE i \in DOMAIN s : s[i] = x /\ \A j \in 1..(i - 1) : s[j] # x
    ELSE 0

\* lines 73-79: first preferred model that is listed, else the first listed
DefaultModel_First(models) ==
    IF models # <<>> THEN models[1] ELSE None

DefaultModel(models) ==
    LET hits == { i \in DOMAIN preferred_models : preferred_models[i] \in Range(models) }
    IN  IF hits # {} THEN preferred_models[CHOOSE i \in hits : \A j \in hits : i <= j]
        ELSE IF models # <<>> THEN models[1]
        ELSE None

\* lines 94-104: what st.selectbox returns; pick is the user's choice of
\* this run, None when the user did not touch the selectbox
Selectbox(models, selected, pick) ==
    LET idx == IndexOf(models, selected)
        default_index == IF idx = 0 THEN 1 ELSE idx
    IN  IF models = <<>> THEN None
        ELSE IF pick \in Range(models) THEN pick ELSE models[default_index]

\* ---- user inputs
Prompts == {"", "add a pet"}
Questions == {"what paths?"}
ChatQuestions == {"what paths?", "and which verbs?"}
Goals == {"", "sync pets"}
Languages == {"", "Python"}
Responses == {"r1", "r2"}

\* ---- the remote generation call: model.generate_content + response.text
\* exc: the exception class raised (None: nothing raised); at: the expression
\* of line 24-25 that raised; text: response.text, or str(e) when raised
ExceptionClasses == {"ResourceExhausted", "NotFound", "ServiceUnavailable"}
RemoteOutcomes ==
    { [exc |-> None, at |-> None, text |-> r] : r \in Responses }
    \cup { [exc |-> e, at |-> "generate_content", text |-> "remote failure"] :
             e \in ExceptionClasses }
    \cup { [exc |-> "ValueError", at |-> "response.text", text |-> "no valid part"] }
NoRemote == [exc |-> None, at |-> None, text |-> ""]

\* isinstance(e, cls) for the classes the except clauses name
IsInstance(e, cls) == cls = "Exception" \/ e = cls

NoError == [message |-> <<>>, exc |-> None]
NoResult == [text |-> None, error |-> NoError]

\* lines 21-45
get_gemini_response_CatchAllFirst(model, r) ==
    IF r.exc = None THEN [text |-> r.text, error |-> NoError]
    ELSE [text |-> None,
          error |-> [message |-> <<"unexpected", r.text>>, exc |-> None]]

get_gemini_response(model, r) ==
    IF r.exc = None THEN [text |-> r.text, error |-> NoError]
    ELSE IF IsInstance(r.exc, "ResourceExhausted")
         THEN [text |-> None,
               error |-> [message |-> <<"rate_limit">>, exc |-> r.exc]]
    ELSE IF IsInstance(r.exc, "NotFound")
         THEN [text |-> None,
               error |-> [message |-> <<"not_found", model>>, exc |-> None]]
    ELSE [text |-> None,
          error |-> [message |-> <<"unexpected", r.text>>, exc |-> None]]

\* the GenerationOutcome a result stands for
Outcome(res) ==
    IF res.error = NoError THEN "Success"
    ELSE IF res.error.message[1] = "rate_limit" THEN "RateLimited"
    ELSE IF res.error.message[1] = "not_found" THEN "NotFound"
    ELSE "OtherError"

\* ---- urllib.parse.quote(string_data), lines 269-270
\* characters quote never escapes: letters, digits, "_.-~", and safe="/"
QuoteSafe == (65..90) \cup (97..122) \cup (48..57) \cup {95, 46, 45, 126} \cup {47}

\* upper-case hexadecimal digit of n in 0..15
HexDigit(n) == IF n < 10 THEN 48 + n ELSE 55 + n

\* str.encode('utf-8') of one code point
UTF8Encode(c) ==
    IF c < 128 THEN <<c>>
    ELSE IF c < 2048 THEN <<192 + (c \div 64), 128 + (c % 64)>>
    ELSE IF c < 65536
         THEN <<224 + (c \div 4096), 128 + ((c \div 64) % 64), 128 + (c % 64)>>
    ELSE <<240 + (c \div 262144), 128 + ((c \div 4096) % 64),
           128 + ((c \div 64) % 64), 128 + (c % 64)>>

RECURSIVE EscapeBytes(_)
EscapeBytes(bytes) ==
    IF bytes = <<>> THEN <<>>
    ELSE <<37, HexDigit(Head(bytes) \div 16), HexDigit(Head(bytes) % 16)>>
         \o EscapeBytes(Tail(bytes))

\* quote_plus writes a space as "+"
QuoteChar_Plus(c) ==
    IF c \in QuoteSafe THEN <<c>>
    ELSE IF c = 32 THEN <<43>>
    ELSE EscapeBytes(UTF8Encode(c))

QuoteChar(c) ==
    IF c \in QuoteSafe THEN <<c>> ELSE EscapeBytes(UTF8Encode(c))

RECURSIVE QuoteSeq(_)
QuoteSeq(s) ==
    IF s = <<>> THEN <<>> ELSE QuoteChar(Head(s)) \o QuoteSeq(Tail(s))

\* urllib.parse.quote(text): the padding is "a", which is never escaped
quote(text) == [pad |-> text.pad, tail |-> QuoteSeq(text.tail)]

NoUrl == [base |-> "", param |-> "", value |-> EmptyText]

\* lines 266-271: the URL of the iframe; none is rendered for a large text
\* until the user supplies a Gist URL
EditorFrame(text) ==
    IF EditorRoute(text) = "EmbedDirect"
    THEN [base |-> "https://editor-next.swagger.io/", param |-> "spec",
          value |-> quote(text)]
    ELSE NoUrl

\* ---- prompts: the parts joined by "\n" at lines 159, 191, 237
NoPrompt == <<>>
Literal(line) == [kind |-> "literal", a |-> line, b |-> "", text |-> EmptyText]
Embedded(text) == [kind |-> "spec", a |-> "", b |-> "", text |-> text]
Filled(kind, a, b) == [kind |-> kind, a |-> a, b |-> b, text |-> EmptyText]

\* a prompt builder that cuts the specification at the editor threshold
GeneratePrompt_Truncated(spec, prompt) ==
    << Literal("generate: instructions"), Literal(""),
       Literal("OpenAPI Specification:"), Literal("fence: yaml"),
       Embedded(IF spec.pad > EditorLimit \div 2
                THEN [pad |-> EditorLimit \div 2, tail |-> <<>>] ELSE spec),
       Literal("fence: end"),
       Filled("user_request", prompt, ""), Literal(""),
       Literal("generate: output rules") >>

\* lines 148-159
GeneratePrompt(spec, prompt) ==
    << Literal("generate: instructions"), Literal(""),
       Literal("OpenAPI Specification:"), Literal("fence: yaml"),
       Embedded(spec), Literal("fence: end"),
       Filled("user_request", prompt, ""), Literal(""),
       Literal("generate: output rules") >>

\* line 190: one line per message of the history, in order
history_context_Reversed(history) ==
    [i \in DOMAIN history |->
        Filled("turn", history[Len(history) + 1 - i].role,
               history[Len(history) + 1 - i].content)]

history_context(history) ==
    [i \in DOMAIN history |-> Filled("turn", history[i].role, history[i].content)]

\* lines 190-203
AnalysisPrompt(spec, history) ==
    << Literal("analyze: instructions"), Literal("analyze: keep context"),
       Literal(""), Literal("OpenAPI Specification:"), Literal("fence: yaml"),
       Embedded(spec), Literal("fence: end"), Literal("---"), Literal("Chat History:") >>
    \o history_context(history) \o << Literal("---") >>

\* lines 237-249
ErpPrompt(spec, goal, language) ==
    << Literal("erp: instructions"), Filled("language", language, ""), Literal(""),
       Literal("erp: task"), Literal("OpenAPI Specification:"), Literal("fence: yaml"),
       Embedded(spec), Literal("fence: end"),
       Filled("goal", goal, ""), Literal(""),
       Literal("erp: output rules") >>

-----------------------------------------------------------------------------
(* The script *)

Total == Len(generate_history) + Len(analysis_history) + Len(erp_history)

\* list.append
append_Front(h, e) == <<e>> \o h

append(h, e) == h \o <<e>>

\* line 117
IsNewFile_Always(name, current) == TRUE

IsNewFile(name, current) == name # current

\* line 142
GenerateRejected(prompt) == prompt = ""

\* line 232
ErpRejected_GoalOnly(goal, language) == goal = ""

ErpRejected(goal, language) == goal = "" \/ language = ""

EmptyJournal == [t \in Tasks |-> <<>>]

\* lines 61-83: the session credential and model list after the key check
FetchModels_KeepKey(key, fetch) ==
    IF key # "" /\ key # api_key
    THEN [api_key |-> key,
          models_list |-> IF fetch.ok THEN fetch.models ELSE <<>>,
          selected_model |-> IF fetch.ok THEN DefaultModel(fetch.models) ELSE None,
          shown |-> IF fetch.ok THEN <<>> ELSE <<"error">>,
          fetched |-> IF fetch.ok THEN "listed" ELSE "failed"]
    ELSE [api_key |-> api_key, models_list |-> models_list,
          selected_model |-> selected_model, shown |-> <<>>, fetched |-> "none"]

FetchModels(key, fetch) ==
    IF key # "" /\ key # api_key
    THEN [api_key |-> IF fetch.ok THEN key ELSE "",
          models_list |-> IF fetch.ok THEN fetch.models ELSE <<>>,
          selected_model |-> IF fetch.ok THEN DefaultModel(fetch.models) ELSE None,
          shown |-> IF fetch.ok THEN <<>> ELSE <<"error">>,
          fetched |-> IF fetch.ok THEN "listed" ELSE "failed"]
    ELSE [api_key |-> api_key, models_list |-> models_list,
          selected_model |-> selected_model, shown |-> <<>>, fetched |-> "none"]

\* The values every variable the script writes has when the script ends
\* at `why` without having reached the tabs.
Ended(a, why, msgs) ==
    [api_key |-> a.api_key, models_list |-> a.models_list,
     selected_model |-> a.selected_model,
     current_file_name |-> current_file_name,
     generate_history |-> generate_history,
     analysis_history |-> analysis_history,
     erp_history |-> erp_history,
     pc |-> "Done", task |-> None, accepted |-> FALSE,
     string_data |-> EmptyText, stopped |-> why, editor |-> None,
     editor_url |-> NoUrl, full_prompt |-> NoPrompt, fetched |-> a.fetched,
     calls |-> 0, log |-> <<>>, shown |-> a.shown \o msgs,
     journal |-> journal]

\* lines 113-125: the file decoded and parsed, histories reset for a new file
Loaded(a, file) ==
    LET new == IsNewFile(file.name, current_file_name)
    IN  [Ended(a, None, <<"success">>) EXCEPT
            !.current_file_name = IF new THEN file.name ELSE current_file_name,
            !.analysis_history = IF new THEN <<>> ELSE analysis_history,
            !.generate_history = IF new THEN <<>> ELSE generate_history,
            !.erp_history = IF new THEN <<>> ELSE erp_history,
            !.journal = IF new THEN EmptyJournal ELSE journal,
            !.string_data = file.text,
            !.log = <<"info:parsed">>]

\* lines 262-290: the editor and view tabs, which end the script
Rendered(s) ==
    [s EXCEPT !.editor = EditorRoute(s.string_data),
              !.editor_url = EditorFrame(s.string_data),
              !.stopped = "end", !.pc = "Done"]

\* lines 130-167 up to the call
GenerateTab(s, prompt) ==
    IF GenerateRejected(prompt)
    THEN Rendered([s EXCEPT !.task = "Generate",
                            !.shown = append(s.shown, "warning"),
                            !.log = append(s.log, "warning:empty_prompt")])
    ELSE [s EXCEPT !.task = "Generate", !.accepted = TRUE,
                   !.log = append(s.log, "info:generate"),
                   !.full_prompt = GeneratePrompt(s.string_data, prompt),
                   !.calls = s.calls + 1, !.pc = "Calling"]

\* lines 180-205 up to the call
AnalyzeTab(s, question) ==
    [s EXCEPT !.task = "Analyze", !.accepted = TRUE,
              !.analysis_history =
                  append(s.analysis_history, [role |-> "user", content |-> question]),
              !.journal["Analyze"] =
                  s.journal["Analyze"] \o <<[spec |-> s.string_data,
                                             entry |-> <<"user", question>>]>>,
              !.full_prompt =
                  AnalysisPrompt(s.string_data,
                      append(s.analysis_history, [role |-> "user", content |-> question])),
              !.calls = s.calls + 1, !.pc = "Calling"]

\* lines 231-251 up to the call
ErpTab(s, goal, language) ==
    IF ErpRejected(goal, language)
    THEN Rendered([s EXCEPT !.task = "ERPIntegration",
                            !.shown = append(s.shown, "warning")])
    ELSE [s EXCEPT !.task = "ERPIntegration", !.accepted = TRUE,
                   !.log = append(s.log, "info:erp"),
                   !.full_prompt = ErpPrompt(s.string_data, goal, language),
                   !.calls = s.calls + 1, !.pc = "Calling"]

\* line 85
NoCredential(key) == key = ""

\* line 89
NoModels_Never(models) == FALSE

NoModels(models) == models = <<>>

\* lines 292-295: decoding or parsing raised before the reset of line 117
ParseFailed_ResetFirst(a, file, why) ==
    [Ended(a, why, <<"error">>) EXCEPT
        !.current_file_name = file.name,
        !.analysis_history = <<>>, !.generate_history = <<>>, !.erp_history = <<>>,
        !.journal = EmptyJournal]

ParseFailed(a, file, why) == Ended(a, why, <<"error">>)

\* lines 48-259: one run of the script up to the generation call or its end
Script(key, file, trigger, pick, prompt, question, goal, language, fetch) ==
    LET a == FetchModels(key, fetch)
    IN  IF NoCredential(a.api_key) THEN Ended(a, "no_key", <<"warning">>)
        ELSE IF NoModels(a.models_list) THEN Ended(a, "no_models", <<"warning">>)
        ELSE LET sel == [a EXCEPT !.selected_model =
                                    Selectbox(a.models_list, a.selected_model, pick)]
             IN  IF file = NoFile THEN Ended(sel, "no_file", <<>>)
                 ELSE IF ~file.utf8_ok THEN ParseFailed(sel, file, "decode_error")
                 ELSE IF ~file.yaml_ok THEN ParseFailed(sel, file, "yaml_error")
                 ELSE LET s == Loaded(sel, file)
                      IN  IF trigger = "generate" THEN GenerateTab(s, prompt)
                          ELSE IF trigger = "chat" THEN AnalyzeTab(s, question)
                          ELSE IF trigger = "erp" THEN ErpTab(s, goal, language)
                          ELSE Rendered(s)

\* A user interaction and the run of the script it triggers; fetches are
\* the outcomes genai.configure and genai.list_models can have.
RunWith(fetches, key, file, trigger, pick, prompt, question, goal, language) ==
    /\ pc = "Idle"
    /\ \E fetch \in fetches :
         /\ (key # "" /\ key # api_key) \/ fetch = NoFetch
         /\ \E s \in {Script(key, file, trigger, pick, prompt, question, goal,
                            language, fetch)} :
                /\ api_key' = s.api_key
                /\ models_list' = s.models_list
                /\ selected_model' = s.selected_model
                /\ current_file_name' = s.current_file_name
                /\ generate_history' = s.generate_history
                /\ analysis_history' = s.analysis_history
                /\ erp_history' = s.erp_history
                /\ pc' = s.pc
                /\ task' = s.task
                /\ accepted' = s.accepted
                /\ string_data' = s.string_data
                /\ stopped' = s.stopped
                /\ editor' = s.editor
                /\ editor_url' = s.editor_url
                /\ full_prompt' = s.full_prompt
                /\ fetched' = s.fetched
                /\ calls' = s.calls
                /\ log' = s.log
                /\ shown' = s.shown
                /\ journal' = s.journal
    /\ api_key_input' = key
    /\ uploaded_file' = file
    /\ user_prompt' = prompt
    /\ analysis_prompt' = question
    /\ erp_prompt' = goal
    /\ erp_language' = language
    /\ result' = NoResult
    /\ remote' = NoRemote
    /\ hist0' = histories

Run(key, file, trigger, pick, prompt, question, goal, language) ==
    RunWith(FetchOutcomes, key, file, trigger, pick, prompt, question, goal, language)

\* lines 27, 34, 43: the logging call of the except clause taken
ErrorLog(r) ==
    IF r.exc = None THEN <<>>
    ELSE IF IsInstance(r.exc, "ResourceExhausted") THEN <<"error:rate_limit">>
    ELSE IF IsInstance(r.exc, "NotFound") THEN <<"error:not_found">>
    ELSE <<"error:unexpected">>

\* lines 162-167
GenerateRecord(h, prompt, res) ==
    IF res.error # NoError THEN h
    ELSE append(h, [prompt |-> prompt, response |-> res.text])

\* lines 206-210
AnalysisRecord_DropTurn(h, res) ==
    IF res.error # NoError THEN SubSeq(h, 1, Len(h) - 1)
    ELSE append(h, [role |-> "assistant", content |-> res.text])

AnalysisRecord(h, res) ==
    IF res.error # NoError THEN h
    ELSE append(h, [role |-> "assistant", content |-> res.text])

\* lines 252-259
ErpRecord(h, goal, language, res) ==
    IF res.error # NoError THEN h
    ELSE append(h, [prompt |-> goal, language |-> language, response |-> res.text])

\* lines 163-165, 207, 253: what the handler shows for an error
ErrorShown(t, res) ==
    IF res.error = NoError THEN <<>>
    ELSE IF t = "Generate" /\ res.error.exc # None THEN <<"error", "exception">>
    ELSE <<"error">>

\* what the remote's answer adds to the journal of task t
Answered(t, r) ==
    IF r.exc # None THEN <<>>
    ELSE LET e == IF t = "Generate" THEN <<user_prompt, r.text>>
                  ELSE IF t = "Analyze" THEN <<"assistant", r.text>>
                  ELSE <<erp_prompt, erp_language, r.text>>
         IN  <<[spec |-> string_data, entry |-> e]>>

\* lines 167, 210, 255: the history the handler of task t appends to
HistoryOf_ErpIntoGenerate(t) ==
    IF t = "Analyze" THEN "analysis_history" ELSE "generate_history"

HistoryOf(t) ==
    IF t = "Generate" THEN "generate_history"
    ELSE IF t = "Analyze" THEN "analysis_history"
    ELSE "erp_history"

\* The handler records or shows the outcome of the call and the script runs
\* to its end (lines 24-45, 162-167, 206-210, 252-259, 262-290).
Complete(r) ==
    /\ pc = "Calling"
    /\ \E res \in {get_gemini_response(selected_model, r)} :
           /\ result' = res
           /\ generate_history' =
                IF HistoryOf(task) = "generate_history"
                THEN GenerateRecord(generate_history, user_prompt, res)
                ELSE generate_history
           /\ analysis_history' =
                IF HistoryOf(task) = "analysis_history"
                THEN AnalysisRecord(analysis_history, res)
                ELSE analysis_history
           /\ erp_history' =
                IF HistoryOf(task) = "erp_history"
                THEN ErpRecord(erp_history, erp_prompt, erp_language, res)
                ELSE erp_history
           /\ shown' = shown \o ErrorShown(task, res)
    /\ log' = log \o ErrorLog(r)
    /\ remote' = r
    /\ journal' = [journal EXCEPT ![task] = @ \o Answered(task, r)]
    /\ editor' = EditorRoute(string_data)
    /\ editor_url' = EditorFrame(string_data)
    /\ stopped' = "end"
    /\ pc' = "Done"
    /\ UNCHANGED <<session, widgets, task, accepted, user_prompt, analysis_prompt,
                   erp_prompt, erp_language, string_data, full_prompt, fetched,
                   calls, hist0>>

\* a retry loop around the call: a call that raised is issued again
Return_Retry(r) ==
    IF r.exc = None THEN Complete(r)
    ELSE /\ pc = "Calling"
         /\ calls' = IF calls < 2 THEN calls + 1 ELSE calls
         /\ remote' = r
         /\ UNCHANGED <<session, histories, widgets, pc, task, accepted, user_prompt,
                        analysis_prompt, erp_prompt, erp_language, string_data,
                        stopped, result, editor, editor_url, full_prompt, fetched,
                        log, shown, hist0, journal>>

\* line 24: the one generation call of the run returns or raises, once
Return(r) == Complete(r)

\* The script has ended; the page waits for the next interaction.
Finish ==
    /\ pc = "Done"
    /\ pc' = "Idle"
    /\ task' = None
    /\ accepted' = FALSE
    /\ user_prompt' = ""
    /\ analysis_prompt' = ""
    /\ erp_prompt' = ""
    /\ erp_language' = ""
    /\ string_data' = EmptyText
    /\ stopped' = None
    /\ result' = NoResult
    /\ editor' = None
    /\ editor_url' = NoUrl
    /\ full_prompt' = NoPrompt
    /\ fetched' = "none"
    /\ calls' = 0
    /\ log' = <<>>
    /\ shown' = <<>>
    /\ remote' = NoRemote
    /\ hist0' = <<<<>>, <<>>, <<>>>>
    /\ UNCHANGED <<session, histories, widgets, journal>>

-----------------------------------------------------------------------------
(* User interactions *)

\* the last run rendered the tabs, so their widgets can be used
TabsVisible ==
    /\ api_key # "" /\ models_list # <<>>
    /\ uploaded_file # NoFile /\ uploaded_file.utf8_ok /\ uploaded_file.yaml_ok

EnterKey(key) ==
    /\ key # api_key_input
    /\ Run(key, uploaded_file, None, None, "", "", "", "")

UploadFile(file) ==
    /\ Run(api_key_input, file, None, None, "", "", "", "")

SelectModel(m) ==
    /\ api_key # "" /\ m \in Range(models_list)
    /\ Run(api_key_input, uploaded_file, None, m, "", "", "", "")

ClickGenerate(prompt) ==
    /\ TabsVisible /\ Total + 1 <= MaxEntries
    /\ Run(api_key_input, uploaded_file, "generate", None, prompt, "", "", "")

SubmitChat(question) ==
    /\ TabsVisible /\ Total + 2 <= MaxEntries
    /\ Run(api_key_input, uploaded_file, "chat", None, "", question, "", "")

ClickErp(goal, language) ==
    /\ TabsVisible /\ Total + 1 <= MaxEntries
    /\ Run(api_key_input, uploaded_file, "erp", None, "", "", goal, language)

-----------------------------------------------------------------------------
(* Specifications *)

\* lines 51-58; the histories do not exist until the first file is loaded,
\* and nothing reads them before
Init ==
    /\ api_key = ""
    /\ models_list = <<>>
    /\ selected_model = None
    /\ current_file_name = None
    /\ generate_history = <<>>
    /\ analysis_history = <<>>
    /\ erp_history = <<>>
    /\ api_key_input = ""
    /\ uploaded_file = NoFile
    /\ pc = "Idle"
    /\ task = None
    /\ accepted = FALSE
    /\ user_prompt = ""
    /\ analysis_prompt = ""
    /\ erp_prompt = ""
    /\ erp_language = ""
    /\ string_data = EmptyText
    /\ stopped = None
    /\ result = NoResult
    /\ editor = None
    /\ editor_url = NoUrl
    /\ full_prompt = NoPrompt
    /\ fetched = "none"
    /\ calls = 0
    /\ log = <<>>
    /\ shown = <<>>
    /\ remote = NoRemote
    /\ hist0 = <<<<>>, <<>>, <<>>>>
    /\ journal = EmptyJournal

KeyEntered == \E k \in Keys \cup {""} : EnterKey(k)
FileUploaded == \E f \in Files \cup {NoFile} : UploadFile(f)
ModelSelected == \E m \in UNION { Range(l) : l \in ModelLists } : SelectModel(m)
GenerateClicked == \E p \in Prompts : ClickGenerate(p)
ChatSubmitted == \E q \in Questions : SubmitChat(q)
ErpClicked == \E g \in Goals, l \in Languages : ClickErp(g, l)
Returned == \E r \in RemoteOutcomes : Return(r)

Next ==
    \/ KeyEntered
    \/ FileUploaded
    \/ ModelSelected
    \/ GenerateClicked
    \/ ChatSubmitted
    \/ ErpClicked
    \/ Returned
    \/ Finish

Spec == Init /\ [][Next]_vars

\* the remote call returns or raises, and a script that has ended hands
\* control back to the page
FairSpec == Spec /\ WF_vars(Returned) /\ WF_vars(Finish)

\* the editor tab over texts on both sides of its threshold
TextUploaded == \E f \in TextFiles : UploadFile(f)

RouteNext ==
    \/ KeyEntered
    \/ TextUploaded
    \/ Finish

RouteSpec == Init /\ [][RouteNext]_vars

\* the editor tab over texts with characters that are and are not escaped
UrlTextUploaded == \E f \in UrlFiles : UploadFile(f)

UrlNext ==
    \/ KeyEntered
    \/ UrlTextUploaded
    \/ Finish

UrlSpec == Init /\ [][UrlNext]_vars

\* a conversation on the Analyze tab, long enough for a question to follow
\* answered and unanswered turns
ChatAsked ==
    \E q \in ChatQuestions :
        /\ TabsVisible /\ Len(analysis_history) + 2 <= MaxTurns
        /\ Run(api_key_input, uploaded_file, "chat", None, "", q, "", "")

ChatNext ==
    \/ KeyEntered
    \/ FileUploaded
    \/ ChatAsked
    \/ Returned
    \/ Finish

ChatSpec == Init /\ [][ChatNext]_vars

\* two credentials and the wider listings, with the Generate tab as the
\* task that issues calls
AuthKeyEntered ==
    \E k \in AuthKeys \cup {""} :
        /\ k # api_key_input
        /\ RunWith(AuthFetchOutcomes, k, uploaded_file, None, None, "", "", "", "")

AuthModelSelected ==
    \E m \in UNION { Range(l) : l \in AuthModelLists } : SelectModel(m)

AuthNext ==
    \/ AuthKeyEntered
    \/ FileUploaded
    \/ AuthModelSelected
    \/ GenerateClicked
    \/ Returned
    \/ Finish

AuthSpec == Init /\ [][AuthNext]_vars

-----------------------------------------------------------------------------
(* Properties *)

IsPrefix(s, t) == Len(s) <= Len(t) /\ \A i \in DOMAIN s : s[i] = t[i]

NoHistories == <<<<>>, <<>>, <<>>>>

\* the script got past line 114: the upload was decoded and parsed
Parsed == pc = "Calling" \/ (pc = "Done" /\ stopped = "end")

\* a generation call was issued in this run and has ended in failure
CallFailed == pc = "Done" /\ accepted /\ Outcome(result) # "Success"

\* C1: a generation call that ends RateLimited, NotFound or OtherError leaves
\* all three histories as they were when the action started, for every task.
C1_FailedCallsLeaveHistories ==
    CallFailed => histories = hist0

\* C2: a parsed upload whose name equals the last-seen name leaves the three
\* histories and the name as they were; one whose name differs empties all
\* three histories in that step and makes its name the last-seen one.
C2_ResetOnUpload ==
    [][ (pc = "Idle" /\ task' = None /\ (pc' = "Done" /\ stopped' = "end"))
          => IF uploaded_file'.name = current_file_name
             THEN histories' = histories /\ current_file_name' = current_file_name
             ELSE histories' = NoHistories /\ current_file_name' = uploaded_file'.name
      ]_vars

\* C2 witness: an upload under another name has emptied histories that held entries
C2_Witness ==
    /\ pc = "Done" /\ stopped = "end" /\ task = None
    /\ hist0[1] # <<>> /\ hist0[2] # <<>>
    /\ histories = NoHistories

\* C3: once a specification is loaded, every entry of every history was
\* recorded under the specification text that is loaded now.
C3_HistoriesScoped ==
    Parsed =>
        /\ \A k \in DOMAIN generate_history : journal["Generate"][k].spec = string_data
        /\ \A k \in DOMAIN analysis_history : journal["Analyze"][k].spec = string_data
        /\ \A k \in DOMAIN erp_history : journal["ERPIntegration"][k].spec = string_data

\* C4: in every step each history keeps its entries, in place, as a prefix
\* of its new value, or all three histories are emptied by a reset for a new
\* file name.
C4_AppendOnly ==
    [][ \/ /\ IsPrefix(generate_history, generate_history')
           /\ IsPrefix(analysis_history, analysis_history')
           /\ IsPrefix(erp_history, erp_history')
        \/ /\ histories' = NoHistories
           /\ current_file_name' # current_file_name
      ]_vars

\* C4 witness: an entry was appended to a history that already held one
C4_Witness ==
    /\ pc = "Done" /\ task = "Generate"
    /\ Len(hist0[1]) = 1 /\ Len(generate_history) = 2
    /\ generate_history[1] # generate_history[2]

\* the input of the running handler fails its validation
Rejected ==
    \/ task = "Generate" /\ user_prompt = ""
    \/ task = "ERPIntegration" /\ (erp_prompt = "" \/ erp_language = "")

\* C5: a Generate action with an empty description and an ERP action with an
\* empty goal or language issue no generation call, leave the three
\* histories as they were and end with a warning and no error.
C5_ValidationBlocksCall ==
    Rejected =>
        /\ pc = "Done" /\ ~accepted
        /\ calls = 0 /\ remote = NoRemote /\ result = NoResult
        /\ histories = hist0
        /\ shown[Len(shown)] = "warning" /\ "error" \notin Range(shown)

\* C5 witness: an ERP action with a goal and no language was rejected
C5_Witness ==
    /\ pc = "Done" /\ task = "ERPIntegration"
    /\ erp_prompt # "" /\ erp_language = ""
    /\ hist0 # NoHistories

\* C6: every run of the script, whether its input was rejected or its call
\* succeeded or failed, comes back to Idle, and Idle holds no call in flight.
C6_EndsIdle ==
    /\ [](pc = "Idle" => (task = None /\ ~accepted /\ calls = 0))
    /\ (pc # "Idle") ~> (pc = "Idle")

\* C6 witness: a call is in flight after an earlier action left an unanswered turn
C6_Witness ==
    /\ pc = "Calling" /\ task = "Generate"
    /\ Len(analysis_history) = 1

\* C7: a run that passed validation has issued exactly one generation call,
\* also after that call failed; a run that did not has issued none.
C7_OneCallPerAction ==
    (pc # "Idle") => calls = (IF accepted THEN 1 ELSE 0)

\* C7 witness: a failed call has not been issued again
C7_Witness ==
    /\ CallFailed /\ Outcome(result) = "RateLimited" /\ calls = 1

\* C8: the outcome of a call is decided by what the remote did: nothing
\* raised gives Success with the response text and no error,
\* ResourceExhausted gives RateLimited, NotFound gives NotFound naming the
\* selected model, anything else (also raised by response.text) gives
\* OtherError with the error's text.
C8_OutcomeClassification ==
    (pc = "Done" /\ accepted) =>
        /\ (remote.exc = None) <=> (Outcome(result) = "Success")
        /\ (remote.exc = "ResourceExhausted") <=> (Outcome(result) = "RateLimited")
        /\ (remote.exc = "NotFound") <=> (Outcome(result) = "NotFound")
        /\ (remote.exc \notin {None, "ResourceExhausted", "NotFound"})
              <=> (Outcome(result) = "OtherError")
        /\ Outcome(result) = "Success" =>
              result.text = remote.text /\ result.error = NoError
        /\ Outcome(result) # "Success" => result.text = None
        /\ Outcome(result) = "NotFound" =>
              selected_model \in Range(result.error.message)
        /\ Outcome(result) = "OtherError" =>
              remote.text \in Range(result.error.message)

\* C8 witness: an error raised while reading the response text
C8_Witness ==
    /\ pc = "Done" /\ accepted
    /\ remote.at = "response.text" /\ Outcome(result) = "OtherError"

\* C9: each history lists, in order, what was appended since the last reset:
\* the k-th Generate (ERP) entry holds the input of the k-th successful
\* action and the response returned for it; the analysis history holds the
\* turns in the order they were made.
C9_HistoryRoundTrip ==
    /\ Len(generate_history) = Len(journal["Generate"])
    /\ \A k \in DOMAIN generate_history :
         <<generate_history[k].prompt, generate_history[k].response>>
            = journal["Generate"][k].entry
    /\ Len(erp_history) = Len(journal["ERPIntegration"])
    /\ \A k \in DOMAIN erp_history :
         <<erp_history[k].prompt, erp_history[k].language, erp_history[k].response>>
            = journal["ERPIntegration"][k].entry
    /\ Len(analysis_history) = Len(journal["Analyze"])
    /\ \A k \in DOMAIN analysis_history :
         <<analysis_history[k].role, analysis_history[k].content>>
            = journal["Analyze"][k].entry

\* C9 witness: two successful Generate actions with different responses
C9_Witness ==
    /\ pc = "Idle" /\ Len(generate_history) = 2
    /\ generate_history[1].response = "r2" /\ generate_history[2].response = "r1"

\* C10: the editor tab embeds the text directly exactly when its UTF-8
\* encoding is shorter than 4096 bytes and asks for an external URL exactly
\* when it is 4096 bytes or longer, whatever its number of characters.
C10_EditorThreshold ==
    (pc = "Done" /\ stopped = "end") =>
        /\ (editor = "EmbedDirect") <=> (ByteLength(string_data) < 4096)
        /\ (editor = "RequireExternalUrl") <=> (ByteLength(string_data) >= 4096)

\* C10 witness: a text of fewer than 4096 characters and more than 4096 bytes
C10_Witness ==
    /\ pc = "Done" /\ editor = "RequireExternalUrl"
    /\ CharLength(string_data) < 4096 /\ ByteLength(string_data) > 4096

\* ---- percent-decoding of a query value (RFC 3986), as the editor does
HexValue(c) ==
    IF c \in 48..57 THEN c - 48
    ELSE IF c \in 65..70 THEN c - 55
    ELSE IF c \in 97..102 THEN c - 87
    ELSE 16

RECURSIVE UnescapeBytes(_)
UnescapeBytes(s) ==
    IF s = <<>> THEN <<>>
    ELSE IF Head(s) = 37 /\ Len(s) >= 3 /\ HexValue(s[2]) < 16 /\ HexValue(s[3]) < 16
         THEN <<16 * HexValue(s[2]) + HexValue(s[3])>> \o UnescapeBytes(SubSeq(s, 4, Len(s)))
    ELSE <<Head(s)>> \o UnescapeBytes(Tail(s))

\* bytes.decode('utf-8'); 65533 replaces a malformed sequence
RECURSIVE UTF8Decode(_)
UTF8Decode(b) ==
    IF b = <<>> THEN <<>>
    ELSE IF b[1] < 128 THEN <<b[1]>> \o UTF8Decode(Tail(b))
    ELSE IF b[1] \in 192..223 /\ Len(b) >= 2
         THEN <<(b[1] - 192) * 64 + (b[2] - 128)>> \o UTF8Decode(SubSeq(b, 3, Len(b)))
    ELSE IF b[1] \in 224..239 /\ Len(b) >= 3
         THEN <<(b[1] - 224) * 4096 + (b[2] - 128) * 64 + (b[3] - 128)>>
              \o UTF8Decode(SubSeq(b, 4, Len(b)))
    ELSE IF b[1] \in 240..247 /\ Len(b) >= 4
         THEN <<(b[1] - 240) * 262144 + (b[2] - 128) * 4096 + (b[3] - 128) * 64
                + (b[4] - 128)>> \o UTF8Decode(SubSeq(b, 5, Len(b)))
    ELSE <<65533>> \o UTF8Decode(Tail(b))

PercentDecode(value) ==
    [pad |-> value.pad, tail |-> UTF8Decode(UnescapeBytes(value.tail))]

\* characters a URL query value may hold unescaped besides "%XX" (RFC 3986
\* query: unreserved, sub-delims, ":", "@", "/", "?"), less "&", "=", "+", "#"
QueryValueChars ==
    (65..90) \cup (97..122) \cup (48..57) \cup {45, 46, 95, 126}
    \cup {33, 36, 39, 40, 41, 42, 44, 59, 58, 64, 47, 63} \cup {37}

\* C11: for a text shorter than 4096 bytes the iframe URL is the fixed editor
\* base with a "spec" query value that is a valid query value and whose
\* percent-decoding is the text.
C11_EditorUrlRoundTrip ==
    (pc = "Done" /\ stopped = "end" /\ ByteLength(string_data) < 4096) =>
        /\ editor_url.base = "https://editor-next.swagger.io/"
        /\ editor_url.param = "spec"
        /\ Range(editor_url.value.tail) \subseteq QueryValueChars
        /\ PercentDecode(editor_url.value) = string_data

\* C11 witness: a text holding "%" and a space was embedded
C11_Witness ==
    /\ pc = "Done" /\ editor = "EmbedDirect"
    /\ string_data.tail # <<>> /\ string_data.tail[1] \in {37, 32, 43, 233}
    /\ editor_url.value.tail # string_data.tail

\* the prompt a task builds from the text, the inputs and the history
PromptFor(t, spec, history) ==
    CASE t = "Generate" -> GeneratePrompt(spec, user_prompt)
      [] t = "Analyze" ->
            AnalysisPrompt(spec, append(history,
                                        [role |-> "user", content |-> analysis_prompt]))
      [] t = "ERPIntegration" -> ErpPrompt(spec, erp_prompt, erp_language)
      [] OTHER -> NoPrompt

\* the user's input as it stands in the prompt of a task
InputLines(t) ==
    CASE t = "Generate" -> {Filled("user_request", user_prompt, "")}
      [] t = "Analyze" -> {Filled("turn", "user", analysis_prompt)}
      [] t = "ERPIntegration" -> {Filled("goal", erp_prompt, ""),
                                  Filled("language", erp_language, "")}
      [] OTHER -> {}

\* C12: the prompt sent with a call is the one the task's template gives for
\* the text, the input and the history of the run, it holds the whole text
\* of the upload as one piece, exactly once, and it holds the user's input.
C12_PromptEmbedsSpec ==
    (pc = "Calling") =>
        /\ full_prompt = PromptFor(task, uploaded_file.text, hist0[2])
        /\ \E i \in DOMAIN full_prompt :
              /\ full_prompt[i] = Embedded(uploaded_file.text)
              /\ \A j \in DOMAIN full_prompt :
                    full_prompt[j].kind = "spec" => j = i
        /\ InputLines(task) \subseteq Range(full_prompt)

\* C12 witness: a Generate call for a text of 4095 characters
C12_Witness ==
    /\ pc = "Calling" /\ task = "Generate" /\ user_prompt = "add a pet"
    /\ CharLength(string_data) = EditorLimit - 1

\* the turns of a prompt, in the order they stand in it
RECURSIVE TurnsOf(_)
TurnsOf(prompt) ==
    IF prompt = <<>> THEN <<>>
    ELSE IF Head(prompt).kind = "turn"
         THEN <<[role |-> Head(prompt).a, content |-> Head(prompt).b]>>
              \o TurnsOf(Tail(prompt))
    ELSE TurnsOf(Tail(prompt))

\* C13: the turns of the prompt of an Analyze question are the turns the
\* analysis history held when the question was asked, in history order, each
\* once, followed by the question as the one last turn.
C13_HistoryReplay ==
    (pc = "Calling" /\ task = "Analyze") =>
        TurnsOf(full_prompt)
            = hist0[2] \o <<[role |-> "user", content |-> analysis_prompt]>>

\* C13 witness: a second question asked after an answered one
C13_Witness ==
    /\ pc = "Calling" /\ task = "Analyze" /\ Len(hist0[2]) = 2
    /\ hist0[2][1].role = "user" /\ hist0[2][2].role = "assistant"
    /\ analysis_prompt # hist0[2][1].content

\* C14: a run in which configuring the client or listing the models failed
\* ends with an empty session key, at the credential gate, with nothing of
\* the upload read, no call issued and no history touched; and every run
\* that starts with an empty session key and has a key in the input fetches
\* the models again, whether the key is the one that failed or another.
C14_FailureClearsKey ==
    /\ [](fetched = "failed" =>
            /\ api_key = "" /\ models_list = <<>> /\ selected_model = None
            /\ pc = "Done" /\ stopped = "no_key"
            /\ string_data = EmptyText /\ editor = None
            /\ calls = 0 /\ ~accepted /\ histories = hist0
            /\ "error" \in Range(shown))
    /\ [][(pc = "Idle" /\ pc' # "Idle" /\ api_key = "" /\ api_key_input' # "")
            => fetched' \in {"failed", "listed"}]_vars

\* C14 witness: the fetch for a key failed with a parsable file in the
\* uploader and a history from an earlier, accepted key
C14_Witness ==
    /\ fetched = "failed" /\ api_key_input = "k2"
    /\ uploaded_file # NoFile /\ uploaded_file.utf8_ok /\ uploaded_file.yaml_ok
    /\ generate_history # <<>>

\* the default the preferred list asks for
ExpectedDefault(models) ==
    IF "models/gemini-2.5-flash" \in Range(models) THEN "models/gemini-2.5-flash"
    ELSE IF "models/gemini-pro" \in Range(models) THEN "models/gemini-pro"
    ELSE models[1]

\* C15: a run that listed a non-empty set of models ends with the earliest
\* preferred model that is listed selected, or the first listed model when
\* none is; and whenever a call is in flight the selected model is one of
\* the session's models.
C15_DefaultModel ==
    /\ (fetched = "listed" /\ models_list # <<>>) =>
            selected_model = ExpectedDefault(models_list)
    /\ (pc = "Calling") => selected_model \in Range(models_list)

\* C15 witness: the second preferred model was chosen over an earlier listed one
C15_Witness ==
    /\ fetched = "listed"
    /\ models_list = <<"models/text-x", "models/gemini-pro">>
    /\ selected_model = "models/gemini-pro"

\* the log lines of a run other than the one written when the upload parsed
RECURSIVE CallLines(_)
CallLines(lines) ==
    IF lines = <<>> THEN <<>>
    ELSE IF Head(lines) = "info:parsed" THEN CallLines(Tail(lines))
    ELSE <<Head(lines)>> \o CallLines(Tail(lines))

ErrorTags == {"error:rate_limit", "error:not_found", "error:unexpected"}

\* C16: for every task, one log line is written when a call starts, one more
\* when it fails and none when it succeeds.
C16_LoggingPerCall ==
    /\ (pc = "Calling") =>
          /\ Len(CallLines(log)) = 1
          /\ CallLines(log)[1] \notin ErrorTags
    /\ (pc = "Done" /\ accepted) =>
          /\ Len(CallLines(log)) = (IF Outcome(result) = "Success" THEN 1 ELSE 2)
          /\ CallLines(log)[1] \notin ErrorTags
          /\ Outcome(result) # "Success" => CallLines(log)[2] \in ErrorTags

ParseErrors == {"decode_error", "yaml_error"}

\* C17: a run whose upload fails to decode or to parse leaves the last-seen
\* file name and the three histories as they were, issues no call and ends
\* with an error message; and when the file uploaded next parses and bears
\* the last-seen name, the histories are still the ones from before the
\* failure.
C17_ParseFailureKeepsState ==
    /\ [][(pc = "Idle" /\ stopped' \in ParseErrors) =>
            /\ pc' = "Done" /\ calls' = 0 /\ ~accepted'
            /\ histories' = histories
            /\ current_file_name' = current_file_name
            /\ shown'[Len(shown')] = "error"]_vars
    /\ [][(/\ pc = "Idle" /\ uploaded_file # NoFile
           /\ ~(uploaded_file.utf8_ok /\ uploaded_file.yaml_ok)
           /\ pc' = "Done" /\ stopped' = "end"
           /\ uploaded_file'.name = current_file_name) =>
            histories' = histories]_vars

\* C17 witness: a file under another name failed to decode while the
\* histories of the loaded file held entries
C17_Witness ==
    /\ pc = "Done" /\ stopped = "decode_error"
    /\ current_file_name = "a.yaml" /\ uploaded_file.name = "b.yaml"
    /\ generate_history # <<>> /\ analysis_history # <<>>

Gates == {"no_key", "no_models", "no_file"}

\* C18: a call is in flight only with a non-empty session key, a non-empty
\* model list and an upload decoded and parsed in that run; a run with no
\* session key, no models or no upload ends at its gate with no text read,
\* no prompt built, no call and the histories as they were.
C18_GenerationGated ==
    /\ (pc = "Calling") =>
          /\ api_key # "" /\ models_list # <<>>
          /\ uploaded_file # NoFile /\ uploaded_file.utf8_ok /\ uploaded_file.yaml_ok
          /\ string_data = uploaded_file.text
          /\ "info:parsed" \in Range(log)
    /\ (pc = "Done" /\ (api_key = "" \/ models_list = <<>> \/ uploaded_file = NoFile)) =>
          /\ stopped \in Gates
          /\ calls = 0 /\ ~accepted /\ full_prompt = NoPrompt
          /\ string_data = EmptyText
          /\ histories = hist0

\* C18 witness: the file was taken out of the uploader while two histories
\* held entries, and the run ended at the upload gate
C18_Witness ==
    /\ pc = "Done" /\ stopped = "no_file" /\ api_key # "" /\ models_list # <<>>
    /\ generate_history # <<>> /\ analysis_history # <<>>

\* how many of the three histories a step changes
Changed ==
    (IF generate_history' # generate_history THEN 1 ELSE 0)
    + (IF analysis_history' # analysis_history THEN 1 ELSE 0)
    + (IF erp_history' # erp_history THEN 1 ELSE 0)

\* C19: every step of a Generate, Analyze or ERP action, from the click to
\* the outcome of its call, leaves the histories of the other two tasks and
\* the last-seen file name as they were; a step that changes more than one
\* history is a reset for a new file name.
C19_TaskIsolation ==
    [][ /\ (task' = "Generate") =>
              /\ analysis_history' = analysis_history /\ erp_history' = erp_history
              /\ current_file_name' = current_file_name
        /\ (task' = "Analyze") =>
              /\ generate_history' = generate_history /\ erp_history' = erp_history
              /\ current_file_name' = current_file_name
        /\ (task' = "ERPIntegration") =>
              /\ generate_history' = generate_history
              /\ analysis_history' = analysis_history
              /\ current_file_name' = current_file_name
        /\ (Changed > 1) =>
              /\ task' = None /\ histories' = NoHistories
              /\ current_file_name' # current_file_name
      ]_vars

\* C19 witness: an ERP call succeeded while the other two histories held entries
C19_Witness ==
    /\ pc = "Done" /\ task = "ERPIntegration" /\ Outcome(result) = "Success"
    /\ Len(erp_history) = Len(hist0[3]) + 1
    /\ generate_history # <<>> /\ analysis_history # <<>>

\* C20: between actions the analysis history alternates user, assistant,
\* user, assistant, ... and has even length.
C20_TranscriptAlternates ==
    (pc = "Idle") =>
        /\ Len(analysis_history) % 2 = 0
        /\ \A i \in DOMAIN analysis_history :
              analysis_history[i].role = (IF i % 2 = 1 THEN "user" ELSE "assistant")

=============================================================================
